---- MODULE Spec2Model ----
(***************************************************************************)
(* Model of the worker pool of server-rs (src/src/lib.rs): ThreadPool::new, *)
(* ThreadPool::execute, Drop for ThreadPool and the loop of the thread     *)
(* spawned by Worker::new, over an mpsc channel whose Receiver is shared   *)
(* behind Arc<Mutex<..>>.                                                  *)
(*                                                                         *)
(* One thread (the owner of the pool) runs new, then any number of         *)
(* execute calls, then drop.  Each spawned worker thread runs the loop of  *)
(* lib.rs:102-119.  A job is identified by the order of its submission     *)
(* (1, 2, ...); whether it returns or unwinds is decided when it ends.     *)
(***************************************************************************)
EXTENDS Integers, Sequences, FiniteSets, TLC

\* Largest size handed to ThreadPool::new.
MaxSize == 3
\* Largest number of execute calls.
MaxJobs == 2

\* lock value when the receiver mutex is free.
NoOne == -1
\* message value for Err(RecvError); 0 is "no message", j > 0 is Ok(job j).
Closed == -1
NoMessage == 0

Jobs == 1..MaxJobs

VARIABLES
    size,       \* the argument of ThreadPool::new
    pc,         \* position of the thread that owns the pool
    mainFault,  \* the panic that ended the owner thread: none, assert, send, join
    channel,    \* mpsc::channel() has been called
    sender,     \* ThreadPool.sender is Some (the Sender exists)
    queue,      \* the jobs held by the channel, oldest first
    workers,    \* ThreadPool.workers: sequence of [id, thread], thread = handle is Some
    spawnId,    \* the loop variable id of new
    joinIdx,    \* number of workers drop's loop has finished with
    lock,       \* holder of the receiver mutex, or NoOne
    poisoned,   \* the receiver mutex is poisoned
    wpc,        \* position of each spawned worker thread
    message,    \* the local variable message of each worker thread
    submitted,  \* number of jobs execute has sent
    jobState,   \* unsubmitted, queued, delivered, executing, returned, faulted, dropped
    runner,     \* the worker thread that invoked the job, or NoOne
    delivered,  \* the worker threads whose recv returned the job
    invoked     \* how many times the job was invoked

vars == <<size, pc, mainFault, channel, sender, queue, workers, spawnId, joinIdx,
          lock, poisoned, wpc, message, submitted, jobState, runner, delivered, invoked>>

mainVars == <<size, pc, mainFault, channel, sender, workers, spawnId, joinIdx>>
jobVars == <<submitted, jobState, runner, delivered, invoked>>

Threads == DOMAIN wpc

\* A worker thread that has not returned from, or unwound out of, its closure.
Live(w) == wpc[w] \notin {"stopped", "faulted"}

LiveWorkers == {w \in Threads : Live(w)}

\* Elements of a sequence.
Range(s) == {s[i] : i \in 1..Len(s)}

----------------------------------------------------------------------------
\* Start of the program: ThreadPool::new(size) is about to be called.
Init ==
    /\ size \in 0..MaxSize
    /\ pc = "new"
    /\ mainFault = "none"
    /\ channel = FALSE
    /\ sender = FALSE
    /\ queue = <<>>
    /\ workers = <<>>
    /\ spawnId = 0
    /\ joinIdx = 0
    /\ lock = NoOne
    /\ poisoned = FALSE
    /\ wpc = <<>>
    /\ message = <<>>
    /\ submitted = 0
    /\ jobState = [j \in Jobs |-> "unsubmitted"]
    /\ runner = [j \in Jobs |-> NoOne]
    /\ delivered = [j \in Jobs |-> {}]
    /\ invoked = [j \in Jobs |-> 0]

----------------------------------------------------------------------------
\* ThreadPool::new

\* Variant: the assertion lets size 0 through.
SizeOkLax(n) == n >= 0

\* assert!(size > 0)
SizeOk(n) == n > 0

NewAssert ==
    /\ pc = "new"
    /\ IF SizeOk(size)
       THEN pc' = "new_channel" /\ UNCHANGED mainFault
       ELSE pc' = "panicked" /\ mainFault' = "assert"
    /\ UNCHANGED <<size, channel, sender, queue, workers, spawnId, joinIdx,
                   lock, poisoned, wpc, message>>
    /\ UNCHANGED jobVars

\* mpsc::channel(), Arc::new(Mutex::new(receiver)), Vec::with_capacity(size)
NewChannel ==
    /\ pc = "new_channel"
    /\ channel' = TRUE
    /\ sender' = TRUE
    /\ spawnId' = 0
    /\ pc' = "new_spawn"
    /\ UNCHANGED <<size, mainFault, queue, workers, joinIdx, lock, poisoned, wpc, message>>
    /\ UNCHANGED jobVars

\* Variant: the loop runs over 0..=size.
SpawnMoreInclusive(id, n) == id <= n

\* The range 0..size of the for loop.
SpawnMore(id, n) == id < n

\* workers.push(Worker::new(id, Arc::clone(&receiver))): the thread is spawned
\* and starts at the top of its loop.
NewSpawn ==
    /\ pc = "new_spawn"
    /\ SpawnMore(spawnId, size)
    /\ workers' = Append(workers, [id |-> spawnId, thread |-> TRUE])
    /\ wpc' = wpc @@ (spawnId :> "lock")
    /\ message' = message @@ (spawnId :> NoMessage)
    /\ spawnId' = spawnId + 1
    /\ UNCHANGED <<size, pc, mainFault, channel, sender, queue, joinIdx, lock, poisoned>>
    /\ UNCHANGED jobVars

\* ThreadPool { workers, sender: Some(sender) }; the local Arc of new is dropped.
NewReturn ==
    /\ pc = "new_spawn"
    /\ ~SpawnMore(spawnId, size)
    /\ pc' = "alive"
    /\ UNCHANGED <<size, mainFault, channel, sender, queue, workers, spawnId, joinIdx,
                   lock, poisoned, wpc, message>>
    /\ UNCHANGED jobVars

----------------------------------------------------------------------------
\* The shared Receiver

\* The Receiver lives as long as one Arc to it does: the local of new, or the
\* clone captured by the closure of a worker thread that has not ended.
ReceiverAlive(p, w) == channel /\ (p = "new_spawn" \/ \E t \in DOMAIN w : w[t] \notin {"stopped", "faulted"})

\* Job states after the worker positions become w: when the last Arc goes the
\* Receiver is dropped and with it every job still in the channel.
StatesAfterRelease(w, js) ==
    IF ReceiverAlive(pc, w) THEN js
    ELSE [j \in Jobs |-> IF j \in Range(queue) THEN "dropped" ELSE js[j]]

QueueAfterRelease(w) == IF ReceiverAlive(pc, w) THEN queue ELSE <<>>

----------------------------------------------------------------------------
\* ThreadPool::execute

\* Variant: send puts the job in front of the jobs already waiting.
EnqueueFront(q, j) == <<j>> \o q

\* Sender::send on channel contents q: the job goes to the tail.
Enqueue(q, j) == Append(q, j)

\* self.sender.as_ref().unwrap().send(job).unwrap(): send is Err once the
\* Receiver has been dropped, and the unwrap panics.
SendOk == sender /\ ReceiverAlive(pc, wpc)

Execute ==
    /\ pc = "alive"
    /\ submitted < MaxJobs
    /\ IF SendOk
       THEN /\ submitted' = submitted + 1
            /\ queue' = Enqueue(queue, submitted + 1)
            /\ jobState' = [jobState EXCEPT ![submitted + 1] = "queued"]
            /\ UNCHANGED <<pc, mainFault>>
       ELSE /\ pc' = "panicked"
            /\ mainFault' = "send"
            /\ UNCHANGED <<submitted, queue, jobState>>
    /\ UNCHANGED <<size, channel, sender, workers, spawnId, joinIdx,
                   lock, poisoned, wpc, message, runner, delivered, invoked>>

----------------------------------------------------------------------------
\* Drop for ThreadPool

\* Variant: drop goes to the joins with the sender still in place.
DropSenderKept ==
    /\ pc = "alive"
    /\ joinIdx' = 0
    /\ pc' = "drop_loop"
    /\ UNCHANGED <<size, mainFault, channel, sender, queue, workers, spawnId,
                   lock, poisoned, wpc, message>>
    /\ UNCHANGED jobVars

\* drop(self.sender.take())
DropSender ==
    /\ pc = "alive"
    /\ sender' = FALSE
    /\ joinIdx' = 0
    /\ pc' = "drop_loop"
    /\ UNCHANGED <<size, mainFault, channel, queue, workers, spawnId,
                   lock, poisoned, wpc, message>>
    /\ UNCHANGED jobVars

\* for worker in &mut self.workers { ... worker.thread.take() ... }, and the
\* return of drop when the loop is over.
DropTake ==
    /\ pc = "drop_loop"
    /\ IF joinIdx >= Len(workers)
       THEN pc' = "done" /\ UNCHANGED <<workers, joinIdx>>
       ELSE IF workers[joinIdx + 1].thread
            THEN /\ workers' = [workers EXCEPT ![joinIdx + 1].thread = FALSE]
                 /\ pc' = "drop_join"
                 /\ UNCHANGED joinIdx
            ELSE /\ joinIdx' = joinIdx + 1
                 /\ UNCHANGED <<pc, workers>>
    /\ UNCHANGED <<size, mainFault, channel, sender, queue, spawnId,
                   lock, poisoned, wpc, message>>
    /\ UNCHANGED jobVars

\* Variant: the handle is dropped without waiting for the thread.
JoinReadyDetached(w) == TRUE

\* join() returns once the thread has ended.
JoinReady(w) == ~Live(w)

\* thread.join().unwrap(): join is Err when the thread unwound, and the unwrap
\* panics out of drop.
DropJoin ==
    /\ pc = "drop_join"
    /\ LET w == workers[joinIdx + 1].id IN
       /\ JoinReady(w)
       /\ IF wpc[w] = "faulted"
          THEN pc' = "panicked" /\ mainFault' = "join" /\ UNCHANGED joinIdx
          ELSE pc' = "drop_loop" /\ joinIdx' = joinIdx + 1 /\ UNCHANGED mainFault
    /\ UNCHANGED <<size, channel, sender, queue, workers, spawnId,
                   lock, poisoned, wpc, message>>
    /\ UNCHANGED jobVars

----------------------------------------------------------------------------
\* The worker thread of Worker::new

\* receiver.lock().unwrap(): blocks while another thread holds the mutex;
\* panics when the mutex is poisoned.
Acquire(w) ==
    /\ wpc[w] = "lock"
    /\ lock = NoOne
    /\ IF poisoned
       THEN /\ wpc' = [wpc EXCEPT ![w] = "faulted"]
            /\ queue' = QueueAfterRelease(wpc')
            /\ jobState' = StatesAfterRelease(wpc', jobState)
            /\ UNCHANGED lock
       ELSE /\ wpc' = [wpc EXCEPT ![w] = "recv"]
            /\ lock' = w
            /\ UNCHANGED <<queue, jobState>>
    /\ UNCHANGED mainVars
    /\ UNCHANGED <<poisoned, message, submitted, runner, delivered, invoked>>

\* Variant: a disconnected channel reports closure before handing out what it holds.
RecvResultClosedFirst(q, s) ==
    IF ~s THEN Closed
    ELSE IF q # <<>> THEN Head(q)
    ELSE NoMessage

\* Variant: an empty channel is reported as closed instead of blocking.
RecvResultEmptyCloses(q, s) ==
    IF q # <<>> THEN Head(q)
    ELSE Closed

\* Outcome of Receiver::recv on channel contents q with the Sender alive or not:
\* the oldest job, Closed when the channel is empty and disconnected, and
\* NoMessage while it has to block.
RecvResult(q, s) ==
    IF q # <<>> THEN Head(q)
    ELSE IF ~s THEN Closed
    ELSE NoMessage

\* Variant: recv hands out the oldest job without removing it.
RecvRestPeek(q) == q

\* The channel contents left by a recv that returned a job.
RecvRest(q) == Tail(q)

\* Variant: the guard outlives the statement and is never released.
AfterRecvLockKept(w) == w

\* The mutex holder after the statement `let message = ...recv();`: the guard
\* is a temporary, dropped at the end of the statement.
AfterRecvLock(w) == NoOne

\* let message = receiver.lock().unwrap().recv();
Recv(w) ==
    /\ wpc[w] = "recv"
    /\ lock = w
    /\ LET m == RecvResult(queue, sender) IN
       /\ m # NoMessage
       /\ message' = [message EXCEPT ![w] = m]
       /\ IF m = Closed
          THEN UNCHANGED <<queue, jobState, delivered>>
          ELSE /\ queue' = RecvRest(queue)
               /\ jobState' = [jobState EXCEPT ![m] = "delivered"]
               /\ delivered' = [delivered EXCEPT ![m] = @ \cup {w}]
    /\ lock' = AfterRecvLock(w)
    /\ wpc' = [wpc EXCEPT ![w] = "match"]
    /\ UNCHANGED mainVars
    /\ UNCHANGED <<poisoned, submitted, runner, invoked>>

\* Variant: the worker goes back to the channel without waiting for the job.
AfterInvokeDetached == "lock"

\* The position of a worker that has called job().
AfterInvoke == "exec"

\* Variant: the Err arm has no break and the loop goes round.
MatchNoBreak(w) ==
    /\ wpc[w] = "match"
    /\ IF message[w] = Closed
       THEN /\ wpc' = [wpc EXCEPT ![w] = "lock"]
            /\ UNCHANGED <<queue, jobState, runner, invoked>>
       ELSE /\ wpc' = [wpc EXCEPT ![w] = AfterInvoke]
            /\ jobState' = [jobState EXCEPT ![message[w]] = "executing"]
            /\ runner' = [runner EXCEPT ![message[w]] = w]
            /\ invoked' = [invoked EXCEPT ![message[w]] = @ + 1]
            /\ UNCHANGED queue
    /\ message' = [message EXCEPT ![w] = NoMessage]
    /\ UNCHANGED mainVars
    /\ UNCHANGED <<lock, poisoned, submitted, delivered>>

\* match message { Ok(job) => job() is entered, Err(_) => break }
Match(w) ==
    /\ wpc[w] = "match"
    /\ IF message[w] = Closed
       THEN /\ wpc' = [wpc EXCEPT ![w] = "stopped"]
            /\ queue' = QueueAfterRelease(wpc')
            /\ jobState' = StatesAfterRelease(wpc', jobState)
            /\ UNCHANGED <<runner, invoked>>
       ELSE /\ wpc' = [wpc EXCEPT ![w] = AfterInvoke]
            /\ jobState' = [jobState EXCEPT ![message[w]] = "executing"]
            /\ runner' = [runner EXCEPT ![message[w]] = w]
            /\ invoked' = [invoked EXCEPT ![message[w]] = @ + 1]
            /\ UNCHANGED queue
    /\ message' = [message EXCEPT ![w] = NoMessage]
    /\ UNCHANGED mainVars
    /\ UNCHANGED <<lock, poisoned, submitted, delivered>>

\* The job a worker is inside.
Current(w) == {j \in Jobs : jobState[j] = "executing" /\ runner[j] = w}

\* job() returns; the loop goes round.
JobReturn(w) ==
    /\ wpc[w] = "exec"
    /\ \E j \in Current(w) :
         jobState' = [jobState EXCEPT ![j] = "returned"]
    /\ wpc' = [wpc EXCEPT ![w] = "lock"]
    /\ UNCHANGED mainVars
    /\ UNCHANGED <<queue, lock, poisoned, message, submitted, runner, delivered, invoked>>

\* job() unwinds: the thread ends, its closure (and its Arc) is dropped; a
\* guard it held would poison the mutex.
JobPanic(w) ==
    /\ wpc[w] = "exec"
    /\ wpc' = [wpc EXCEPT ![w] = "faulted"]
    /\ \E j \in Current(w) :
         jobState' = StatesAfterRelease(wpc', [jobState EXCEPT ![j] = "faulted"])
    /\ queue' = QueueAfterRelease(wpc')
    /\ poisoned' = (poisoned \/ lock = w)
    /\ lock' = IF lock = w THEN NoOne ELSE lock
    /\ UNCHANGED mainVars
    /\ UNCHANGED <<message, submitted, runner, delivered, invoked>>

WorkerStep(w) ==
    \/ Acquire(w)
    \/ Recv(w)
    \/ Match(w)

----------------------------------------------------------------------------
Next ==
    \/ NewAssert
    \/ NewChannel
    \/ NewSpawn
    \/ NewReturn
    \/ Execute
    \/ DropSender
    \/ DropTake
    \/ DropJoin
    \/ \E w \in Threads : Acquire(w)
    \/ \E w \in Threads : Recv(w)
    \/ \E w \in Threads : Match(w)
    \/ \E w \in Threads : JobReturn(w)
    \/ \E w \in Threads : JobPanic(w)

Spec == Init /\ [][Next]_vars

\* The steps of the owner thread inside new and drop.
OwnerStep ==
    \/ NewAssert
    \/ NewChannel
    \/ NewSpawn
    \/ NewReturn
    \/ DropTake
    \/ DropJoin

\* Every thread that can take a step is scheduled; a job need not end, and the
\* owner need not call execute or drop the pool.
Fairness ==
    /\ WF_vars(OwnerStep)
    /\ \A w \in 0..(MaxSize - 1) : WF_vars(w \in Threads /\ WorkerStep(w))

FairSpec == Spec /\ Fairness

----------------------------------------------------------------------------
\* The driver, main (src/src/main.rs): one pool of PoolSize workers, one job per
\* accepted connection, Connections connections, and the drop of the pool at
\* the end of main.  Binding, accepting and the work of handle_connection are
\* outside the pool; a connection-handling job returns or unwinds like any job.

\* ThreadPool::new(4)
PoolSize == 4

\* listener.incoming().take(2)
Connections == 2

\* Start of main: ThreadPool::new(4) is about to be called.
MainInit ==
    /\ size = PoolSize
    /\ pc = "new"
    /\ mainFault = "none"
    /\ channel = FALSE
    /\ sender = FALSE
    /\ queue = <<>>
    /\ workers = <<>>
    /\ spawnId = 0
    /\ joinIdx = 0
    /\ lock = NoOne
    /\ poisoned = FALSE
    /\ wpc = <<>>
    /\ message = <<>>
    /\ submitted = 0
    /\ jobState = [j \in Jobs |-> "unsubmitted"]
    /\ runner = [j \in Jobs |-> NoOne]
    /\ delivered = [j \in Jobs |-> {}]
    /\ invoked = [j \in Jobs |-> 0]

\* Variant: the loop ends one connection early.
LoopOverEarly == submitted >= Connections - 1

\* The iterator of the for loop is exhausted.
LoopOver == submitted >= Connections

\* pool.execute(|| handle_connection(stream)) for the next connection
MainExecute == ~LoopOver /\ Execute

\* The end of main: pool goes out of scope and is dropped.
MainEnd == LoopOver /\ DropSender

MainNext ==
    \/ NewAssert
    \/ NewChannel
    \/ NewSpawn
    \/ NewReturn
    \/ MainExecute
    \/ MainEnd
    \/ DropTake
    \/ DropJoin
    \/ \E w \in Threads : Acquire(w)
    \/ \E w \in Threads : Recv(w)
    \/ \E w \in Threads : Match(w)
    \/ \E w \in Threads : JobReturn(w)
    \/ \E w \in Threads : JobPanic(w)

MainSpec == MainInit /\ [][MainNext]_vars

----------------------------------------------------------------------------
TypeOK ==
    /\ size \in (0..MaxSize) \cup {PoolSize}
    /\ pc \in {"new", "new_channel", "new_spawn", "alive", "drop_loop", "drop_join",
               "done", "panicked"}
    /\ mainFault \in {"none", "assert", "send", "join"}
    /\ channel \in BOOLEAN /\ sender \in BOOLEAN /\ poisoned \in BOOLEAN
    /\ Range(queue) \subseteq Jobs
    /\ \A i \in 1..Len(workers) : workers[i].id \in Threads /\ workers[i].thread \in BOOLEAN
    /\ lock \in Threads \cup {NoOne}
    /\ \A w \in Threads : wpc[w] \in {"lock", "recv", "match", "exec", "stopped", "faulted"}
    /\ \A w \in Threads : message[w] \in Jobs \cup {NoMessage, Closed}
    /\ submitted \in 0..MaxJobs

----------------------------------------------------------------------------
\* Properties

NoFault == \A j \in Jobs : jobState[j] # "faulted"

Submitted == 1..submitted

Executing == {j \in Jobs : jobState[j] = "executing"}

Started(j) == jobState[j] \in {"executing", "returned", "faulted"}

Ended(j) == jobState[j] \in {"returned", "faulted"}

\* drop has returned normally, or a panic has unwound out of it.
LeftDrop == pc = "done" \/ mainFault = "join"

\* C1 (P1, exhaustive delivery): when drop has returned and no job faulted,
\* every submitted job has been handed to exactly one worker, invoked exactly
\* once by that worker, and has returned.
C1_ExhaustiveDelivery ==
    (pc = "done" /\ NoFault) =>
        \A j \in Submitted :
            /\ jobState[j] = "returned"
            /\ invoked[j] = 1
            /\ Cardinality(delivered[j]) = 1
            /\ runner[j] \in delivered[j]

\* drop has returned after the largest number of jobs, run by more than one worker.
C1_Witness ==
    /\ pc = "done" /\ NoFault /\ submitted = MaxJobs
    /\ \E i, j \in Submitted : runner[i] # runner[j]

\* C2 (P3, shutdown drains): with no job fault, no job is ever discarded
\* un-executed, a job submitted before the sender was released stays queued,
\* delivered, executing or returned afterwards, and drop is not left while a
\* submitted job has not returned.
C2_ShutdownDrains ==
    NoFault =>
        /\ \A j \in Jobs : jobState[j] # "dropped"
        /\ \A j \in Submitted :
               jobState[j] = "queued" => j \in Range(queue)
        /\ (channel /\ ~sender /\ pc # "done") =>
               \A j \in Submitted :
                   jobState[j] \in {"queued", "delivered", "executing", "returned"}
        /\ LeftDrop => \A j \in Submitted : jobState[j] = "returned"

\* drop is blocked in a join while one job is executing and another is queued.
C2_Witness ==
    /\ pc = "drop_join" /\ NoFault /\ ~sender
    /\ queue # <<>>
    /\ Executing # {}

\* C3 (P4, no double-start): no job is handed to two workers or invoked twice,
\* and a job is in one place only: in the channel, in one worker's message, or
\* with the one worker that invoked it.
C3_NoDoubleStart ==
    \A j \in Jobs :
        /\ Cardinality(delivered[j]) <= 1
        /\ invoked[j] <= 1
        /\ Cardinality({i \in 1..Len(queue) : queue[i] = j}) <= 1
        /\ Cardinality({w \in Threads : message[w] = j}) <= 1
        /\ delivered[j] # {} => j \notin Range(queue)
        /\ (\E w \in Threads : message[w] = j) => jobState[j] = "delivered" /\ invoked[j] = 0
        /\ runner[j] # NoOne => delivered[j] = {runner[j]}

\* two workers hold one job each: one has just received its job, the other is
\* executing.
C3_Witness ==
    \E v, w \in Threads : v # w /\ message[v] \in Jobs /\ wpc[w] = "exec"

\* C4 (P2, bounded concurrency): the number of jobs executing is at most size.
C4_BoundedConcurrency == Cardinality(Executing) <= size

\* every worker of a pool of two or more is executing.
C4_Witness ==
    /\ size >= 2
    /\ Cardinality(Executing) = size

\* C5 (P5, idle safety): once the sender of a pool that never got a job is
\* released, every worker stops and drop returns.
C5_IdleTeardown ==
    (channel /\ ~sender /\ submitted = 0) ~>
        (pc = "done" /\ \A w \in Threads : wpc[w] = "stopped")

\* the sender of an idle pool of three is released while one worker is blocked
\* in recv with the mutex and the others are blocked on the mutex.
C5_Witness ==
    /\ channel /\ ~sender /\ submitted = 0 /\ size >= 3
    /\ \E w \in Threads :
         /\ wpc[w] = "recv" /\ lock = w
         /\ \A v \in Threads \ {w} : wpc[v] = "lock"

\* C6: a call of execute made before teardown never ends in a fatal error.
C6_SubmissionNeverFails == mainFault # "send"

\* C7: when control leaves drop, normally or not, no worker thread is live.
C7_DropLeavesNoLiveWorker == LeftDrop => LiveWorkers = {}

\* C8: a job fault ends the thread that ran it and nothing else: neither
\* execute nor drop fails, and each fault has cost exactly one thread.
C8_FaultIsSilent ==
    /\ mainFault \notin {"send", "join"}
    /\ Cardinality({w \in Threads : wpc[w] = "faulted"})
           = Cardinality({j \in Jobs : jobState[j] = "faulted"})
    /\ pc \in {"alive", "drop_loop", "drop_join", "done"} => Cardinality(Threads) = size

\* C9: new(0) fails at the assertion with no channel, no worker and no thread,
\* and stays there; the assertion never fails for size > 0, and a pool that
\* new returned has its channel, its sender and size workers.
C9_ZeroSizeIsFatal ==
    /\ size = 0 =>
          /\ pc \in {"new", "panicked"}
          /\ pc = "panicked" => mainFault = "assert"
          /\ ~channel /\ ~sender /\ workers = <<>> /\ Threads = {}
    /\ size > 0 =>
          /\ mainFault # "assert"
          /\ pc = "alive" => channel /\ sender /\ Len(workers) = size
                              /\ Cardinality(Threads) = size

\* new(0) has panicked.
C9_Witness == size = 0 /\ pc = "panicked" /\ mainFault = "assert"

\* C10: a worker is inside at most one job, and is inside none while it is at
\* the mutex, in recv or at the match; with one worker, a job starts only after
\* every job submitted before it has ended.
C10_NoParallelInWorker ==
    /\ \A w \in Threads :
          /\ Cardinality(Current(w)) <= 1
          /\ wpc[w] # "exec" => Current(w) = {}
    /\ size = 1 =>
          \A i, j \in Submitted : (i < j /\ Started(j)) => Ended(i)

\* the only worker runs the second job after the first has returned.
C10_Witness ==
    /\ size = 1
    /\ jobState[1] = "returned"
    /\ jobState[2] = "executing"

\* C11 (FIFO delivery): the channel holds the waiting jobs in submission
\* order, and a job has been received by a worker only if every job submitted
\* before it has been received too.
C11_FifoDelivery ==
    /\ \A i, k \in 1..Len(queue) : i < k => queue[i] < queue[k]
    /\ \A i, j \in Submitted :
          (i < j /\ delivered[j] # {}) => (delivered[i] # {} /\ i \notin Range(queue))
    /\ \A i, j \in Submitted :
          (i < j /\ i \in Range(queue)) => j \in Range(queue)

\* the first job was received by one worker and the second, after it, by
\* another.
C11_Witness ==
    /\ submitted >= 2
    /\ delivered[1] # {} /\ delivered[2] # {}
    /\ delivered[1] # delivered[2]

\* C12 (closure only on an empty channel without sender): a worker holds Err,
\* or has stopped, only when the sender is released and no job is waiting;
\* while the sender exists no worker has seen closure.
C12_ClosureOnlyWhenDrained ==
    \A w \in Threads :
        (message[w] = Closed \/ wpc[w] = "stopped") =>
            /\ channel /\ ~sender
            /\ queue = <<>>
            /\ \A j \in Jobs : jobState[j] # "queued"

\* a worker has received Err after both jobs were submitted and handed out.
C12_Witness ==
    /\ submitted = MaxJobs
    /\ \E w \in Threads : message[w] = Closed

\* C13 (teardown order): no handle is taken while the sender exists; the
\* handles are taken in the order of the ids, each after the threads before it
\* have ended; once released the sender does not come back.
C13_TeardownOrder ==
    /\ pc \in {"drop_loop", "drop_join", "done"} \/ mainFault = "join" => ~sender
    /\ (channel /\ ~sender) => pc \notin {"new_spawn", "alive"}
    /\ \A i \in 1..Len(workers) :
          /\ workers[i].id = i - 1
          /\ ~workers[i].thread =>
                /\ ~sender
                /\ i <= joinIdx + 1
                /\ \A k \in 1..(i - 1) : ~workers[k].thread /\ ~Live(workers[k].id)
          /\ i <= joinIdx => ~workers[i].thread /\ ~Live(workers[i].id)
    /\ pc = "drop_join" => ~workers[joinIdx + 1].thread
    /\ pc = "done" => joinIdx = Len(workers)

\* drop has joined worker 0 and waits for worker 1; worker 2 still has its handle.
C13_Witness ==
    /\ pc = "drop_join" /\ joinIdx = 1 /\ size = 3
    /\ Live(1)
    /\ workers[3].thread

\* C14 (the mutex is not held across a job): the mutex is held only by a
\* worker inside recv; a worker that executes, or is at the match, does not
\* hold it, so a waiting worker can lock it while another one executes.
C14_LockNotHeldInJob ==
    /\ lock # NoOne => lock \in Threads /\ wpc[lock] = "recv"
    /\ \A w \in Threads : wpc[w] \in {"match", "exec", "stopped", "faulted"} => lock # w
    /\ \A w \in Threads : Current(w) # {} => lock # w

\* one worker executes while another has locked the mutex and is about to
\* receive the job that waits.
C14_Witness ==
    \E v, w \in Threads :
        /\ v # w
        /\ wpc[w] = "exec"
        /\ lock = v /\ wpc[v] = "recv"
        /\ queue # <<>>

\* A worker that waits for a job: blocked on the mutex or inside recv.
Waiting(w) == wpc[w] \in {"lock", "recv"}

\* C15 as stated: as long as execute was never called, the channel is empty,
\* no job executes and every worker is waiting.
C15_AllWaitBeforeSubmit ==
    submitted = 0 =>
        /\ queue = <<>>
        /\ Executing = {}
        /\ \A w \in Threads : Waiting(w)

\* C15 (amended): as long as execute was never called, the channel is empty, no
\* job executes or is held by a worker, and, until the sender is released,
\* every worker is waiting.
C15_NoJobBeforeSubmit ==
    submitted = 0 =>
        /\ queue = <<>>
        /\ Executing = {}
        /\ \A j \in Jobs : jobState[j] = "unsubmitted" /\ invoked[j] = 0
        /\ \A w \in Threads : message[w] \notin Jobs /\ wpc[w] # "exec"
        /\ sender => \A w \in Threads : Waiting(w)

\* a pool of three that new has returned and that got no job: one worker is
\* blocked in recv, the others on the mutex.
C15_Witness ==
    /\ pc = "alive" /\ submitted = 0 /\ size = 3
    /\ \E w \in Threads : wpc[w] = "recv" /\ \A v \in Threads \ {w} : wpc[v] = "lock"

\* C16 (Stopped is terminal): a worker that holds Err steps only to stopped,
\* and a stopped worker stays stopped, without the mutex, a message or a job.
C16_StoppedIsTerminal ==
    [][\A w \in Threads :
          /\ (message[w] = Closed /\ wpc'[w] # wpc[w]) => wpc'[w] = "stopped"
          /\ wpc[w] = "stopped" =>
                /\ wpc'[w] = "stopped"
                /\ lock' # w
                /\ message'[w] = NoMessage
                /\ \A j \in Jobs : runner'[j] = w => jobState'[j] = jobState[j]
                /\ \A j \in Jobs : w \in delivered'[j] => w \in delivered[j]
      ]_vars

\* one worker has stopped while another is still executing.
C16_Witness ==
    \E v, w \in Threads : wpc[w] = "stopped" /\ wpc[v] = "exec"

\* C17 (fixed worker set): while new spawns, the workers and threads are those
\* of the ids below the loop variable; from the return of new on, through
\* submissions, executions, faults and teardown, the pool has exactly size
\* workers with ids 0..size-1 and exactly these threads exist.
C17_FixedWorkerSet ==
    /\ \A i \in 1..Len(workers) : workers[i].id = i - 1
    /\ Threads = {workers[i].id : i \in 1..Len(workers)}
    /\ Cardinality(Threads) = Len(workers)
    /\ pc \in {"new", "new_channel"} => Len(workers) = 0
    /\ pc = "new_spawn" => Len(workers) = spawnId /\ spawnId <= size
    /\ (pc \in {"alive", "drop_loop", "drop_join", "done"} \/ mainFault \in {"send", "join"}) =>
          /\ Len(workers) = size
          /\ Threads = 0..(size - 1)

\* a pool of three whose drop was left by a panic still has its three workers.
C17_Witness ==
    /\ size = 3 /\ mainFault = "join"
    /\ Len(workers) = 3

\* C18 (fault isolation): the mutex is never poisoned and never held by a
\* thread that has ended or that executes a job; a job is discarded only when
\* no worker is left, and while a worker is left every job not yet handed out
\* is still in the channel.
C18_FaultIsolation ==
    /\ ~poisoned
    /\ lock # NoOne => lock \in LiveWorkers /\ wpc[lock] # "exec"
    /\ \A j \in Jobs : jobState[j] = "dropped" => LiveWorkers = {}
    /\ LiveWorkers # {} => \A j \in Submitted : jobState[j] = "queued" <=> j \in Range(queue)

\* the first job has faulted and a surviving worker holds the mutex in recv,
\* about to receive the second.
C18_Witness ==
    /\ jobState[1] = "faulted"
    /\ queue = <<2>>
    /\ \E v \in LiveWorkers : lock = v /\ wpc[v] = "recv"

\* C19 (no lost work while idle workers contend): at most one worker is inside
\* recv, and, with every thread that can step scheduled, a job at the head of
\* the channel while some worker waits is eventually received.  A worker that
\* has received a job and is about to invoke it counts as executing.
C19_NoLostWork ==
    /\ [](Cardinality({w \in Threads : wpc[w] = "recv"}) <= 1)
    /\ \A j \in Jobs :
          (queue # <<>> /\ Head(queue) = j /\ \E w \in Threads : Waiting(w))
              ~> (j \notin Range(queue) /\ delivered[j] # {})

\* a job is queued while one idle worker is in recv and two wait for the mutex.
C19_Witness ==
    /\ size = 3 /\ queue # <<>>
    /\ \E w \in Threads : wpc[w] = "recv" /\ \A v \in Threads \ {w} : wpc[v] = "lock"

====
